---- MODULE Spec2Model ----
(***************************************************************************)
(* A model of open_ephys/streaming/event_listener.py: the EventListener    *)
(* class, its start() polling loop, stop(), and the two callback stubs.    *)
(*                                                                         *)
(* The thread that calls start() is followed statement by statement (pc).  *)
(* The publisher, a stop() call from another thread or from a callback,    *)
(* and a SIGINT (KeyboardInterrupt) are the environment.                   *)
(***************************************************************************)
EXTENDS Naturals, Sequences, FiniteSets

\* ----------------------------------------------------------------- bounds
MaxMsgs == 2        \* messages the publisher sends in one behaviour
MaxSockErrors == 1  \* poll()/recv_multipart() failures during one start() call

\* ------------------------------------------------------------ wire frames
\* A frame is a byte string.  It is described by what bytes.decode("utf-8")
\* and json.loads make of it: whether the bytes are valid UTF-8, whether the
\* text is a JSON document, and the value the document denotes.  The JSON
\* documents considered are objects (Python dicts).
JsonObject(fields) == [kind |-> "object", fields |-> fields]
NoValue == [kind |-> "none", fields |-> <<>>]

Frame(utf8, json, value) == [utf8 |-> utf8, json |-> json, value |-> value]

SpikeFrame == Frame(TRUE, TRUE, JsonObject([event_type |-> "spike", unit_id |-> "3"]))
TtlFrame == Frame(TRUE, TRUE, JsonObject([event_type |-> "ttl", channel |-> "2"]))
NoTypeFrame == Frame(TRUE, TRUE, JsonObject([channel |-> "5"]))
BadJsonFrame == Frame(TRUE, FALSE, NoValue)
BadUtf8Frame == Frame(FALSE, FALSE, NoValue)
TopicFrame == Frame(TRUE, FALSE, NoValue)

PayloadFrames ==
    {SpikeFrame, TtlFrame, NoTypeFrame, BadJsonFrame, BadUtf8Frame}

\* The multipart messages a publisher can put on the wire: the expected
\* [topic, payload] shape, a single frame, and three frames.
Messages ==
    {<<TopicFrame, p>> : p \in PayloadFrames}
        \cup {<<TtlFrame>>, <<TopicFrame, SpikeFrame, TtlFrame>>}

NoParts == <<>>

\* ------------------------------------------------- results of a failing call
Ok(v) == [ok |-> TRUE, val |-> v, err |-> "none"]
Raise(e) == [ok |-> FALSE, val |-> NoValue, err |-> e]

\* parts[1].decode("utf-8"): the text of the frame, or UnicodeDecodeError
Utf8Decode(frame) ==
    IF frame.utf8
    THEN Ok([json |-> frame.json, value |-> frame.value])
    ELSE Raise("UnicodeDecodeError")

\* json.loads(text): the value the text denotes, or JSONDecodeError
JsonLoads(text) == IF text.json THEN Ok(text.value) ELSE Raise("JSONDecodeError")

\* info[key] on a dict: KeyError on a missing key.
GetItem(info, key) ==
    IF key \notin DOMAIN info.fields THEN Raise("KeyError")
    ELSE Ok(info.fields[key])

\* json.loads(parts[1].decode("utf-8"))
DecodePayload(frame) ==
    LET text == Utf8Decode(frame)
    IN  IF text.ok THEN JsonLoads(text.val) ELSE text

\* if info['event_type'] == 'spike': spike_callback else: ttl_callback
RouteTo(eventType) == IF eventType = "spike" THEN "spike" ELSE "ttl"

\* ------------------------------------------------------------------ state
VARIABLES
    url,         \* self.url
    running,     \* self.running
    pc,          \* where the thread that called start() is
    inbox,       \* multipart messages queued on the SUB socket, oldest first
    parts,       \* the local 'parts' of the iteration: [id, frames]
    err,         \* the exception the iteration's except clause holds
    callbacks,   \* what self.spike_callback / self.ttl_callback resolve to
    result,      \* how the latest start() call ended
    exitCause,   \* why the latest loop was left
    calls,       \* callback bodies entered: [cb, arg, id]
    log,         \* lines printed since the latest start() call began
    handled,     \* what line 97-99 made of each received message: [id, fate, err]
    idleStop,    \* the latest step was a stop() that found running already False
    earlyStop,   \* a stop() ran between the entry of the start() call in
                 \* progress and its write of the flag, and the loop condition
                 \* has not been tested since
    restarted,   \* the latest start() call began after an earlier one had ended
    published,   \* messages sent so far
    sockErrors   \* socket failures during the latest start() call

progVars == <<url, running, pc, inbox, parts, err, callbacks, result, exitCause>>
histVars == <<calls, log, handled, idleStop, earlyStop, restarted, published, sockErrors>>
vars == <<progVars, histVars>>

\* A try block that begins after the poll.
TryAfterPoll == {"recv", "process", "call"}

\* Positions inside the try block of the loop (lines 94-102).
TryBlock == {"poll", "recv", "process", "call"}
\* Positions of a start() call in progress.
InStart == {"entered", "test", "poll", "recv", "process", "call", "handler", "kbhandler", "exit"}

Line(text, detail) == [text |-> text, detail |-> detail]

\* __init__ (lines 73-80): the socket is connected and subscribed to every
\* topic, running is False.  The class attributes spike_callback and
\* ttl_callback are the stubs unless the caller has replaced them on the
\* instance by callables of one argument.
\* "tcp://%s:%d" % (ip_address, port) with the default arguments (lines 59, 73)
DefaultUrl == "tcp://127.0.0.1:5557"

Init ==
    /\ url = DefaultUrl
    /\ running = FALSE
    /\ pc = "idle"
    /\ inbox = <<>>
    /\ parts = NoParts
    /\ err = "none"
    /\ callbacks \in {"stub", "user"}
    /\ result = "none"
    /\ exitCause = "none"
    /\ calls = <<>>
    /\ log = <<Line("Initialized EventListener at ", DefaultUrl)>>
    /\ handled = <<>>
    /\ published = 0
    /\ sockErrors = 0
    /\ idleStop = FALSE
    /\ earlyStop = FALSE
    /\ restarted = FALSE

\* The Event Broadcaster sends one multipart message; the SUB socket queues it.
Publish ==
    /\ idleStop' = FALSE
    /\ UNCHANGED <<url, earlyStop, restarted>>
    /\ published < MaxMsgs
    /\ \E m \in Messages :
          inbox' = Append(inbox, [id |-> published + 1, frames |-> m])
    /\ published' = published + 1
    /\ UNCHANGED <<running, pc, parts, err, callbacks, result, exitCause>>
    /\ UNCHANGED <<calls, log, handled, sockErrors>>

\* A call of start (line 82).  The signature is start(self): a call that
\* passes callbacks, as the class docstring shows, fails with TypeError
\* before the body runs.
StartCall ==
    /\ idleStop' = FALSE
    /\ earlyStop' = FALSE
    /\ UNCHANGED url
    /\ pc = "idle"
    /\ \E withCallbacks \in BOOLEAN :
          IF withCallbacks
          THEN /\ result' = "rejected"
               /\ UNCHANGED <<pc, log, exitCause, sockErrors, restarted>>
          ELSE /\ result' = "none"
               /\ restarted' = (log[1] = Line("Starting EventListener", ""))
               /\ exitCause' = "none"
               /\ pc' = "entered"
               /\ log' = <<Line("Starting EventListener", "")>>
               /\ sockErrors' = 0
    /\ UNCHANGED <<running, inbox, parts, err, callbacks>>
    /\ UNCHANGED <<calls, handled, published>>

\* A start() that sets the flag in the first call only.
SetRunningOnce ==
    /\ idleStop' = FALSE
    /\ UNCHANGED <<url, earlyStop, restarted>>
    /\ pc = "entered"
    /\ running' = ~restarted
    /\ pc' = "test"
    /\ UNCHANGED <<inbox, parts, err, callbacks, result, exitCause>>
    /\ UNCHANGED <<calls, log, handled, published, sockErrors>>

\* A start() that honours a stop() made since its entry.
SetRunningUnlessStopped ==
    /\ idleStop' = FALSE
    /\ UNCHANGED <<url, earlyStop, restarted>>
    /\ pc = "entered"
    /\ running' = ~earlyStop
    /\ pc' = "test"
    /\ UNCHANGED <<inbox, parts, err, callbacks, result, exitCause>>
    /\ UNCHANGED <<calls, log, handled, published, sockErrors>>

\* self.running = True (line 87), then the poller is built (lines 89-90).
SetRunning ==
    /\ idleStop' = FALSE
    /\ UNCHANGED <<url, earlyStop, restarted>>
    /\ pc = "entered"
    /\ running' = TRUE
    /\ pc' = "test"
    /\ UNCHANGED <<inbox, parts, err, callbacks, result, exitCause>>
    /\ UNCHANGED <<calls, log, handled, published, sockErrors>>

\* A loop that does not read the flag.
LoopForever == TRUE

\* The condition of the while statement (line 92).
LoopCondition == running

\* while self.running: (line 92)
LoopTest ==
    /\ idleStop' = FALSE
    /\ earlyStop' = FALSE
    /\ UNCHANGED <<url, restarted>>
    /\ pc = "test"
    /\ IF LoopCondition
       THEN pc' = "poll" /\ UNCHANGED exitCause
       ELSE pc' = "exit" /\ exitCause' = "flag"
    /\ UNCHANGED <<running, inbox, parts, err, callbacks, result>>
    /\ UNCHANGED <<calls, log, handled, published, sockErrors>>

\* A timeout that is taken as the end of the stream: it clears the flag.
PollTimeoutStops ==
    /\ idleStop' = FALSE
    /\ UNCHANGED <<url, earlyStop, restarted>>
    /\ pc = "poll"
    /\ inbox = <<>>
    /\ pc' = "test"
    /\ running' = FALSE
    /\ UNCHANGED <<inbox, parts, err, callbacks, result, exitCause>>
    /\ UNCHANGED <<calls, log, handled, published, sockErrors>>

\* poller.poll(timeout=100) returns no event after the timeout (line 94-95).
PollTimeout ==
    /\ idleStop' = FALSE
    /\ UNCHANGED <<url, earlyStop, restarted>>
    /\ pc = "poll"
    /\ inbox = <<>>
    /\ pc' = "test"
    /\ UNCHANGED <<running, inbox, parts, err, callbacks, result, exitCause>>
    /\ UNCHANGED <<calls, log, handled, published, sockErrors>>

\* poller.poll reports the socket readable (lines 94-95).
PollReady ==
    /\ idleStop' = FALSE
    /\ UNCHANGED <<url, earlyStop, restarted>>
    /\ pc = "poll"
    /\ inbox # <<>>
    /\ pc' = "recv"
    /\ UNCHANGED <<running, inbox, parts, err, callbacks, result, exitCause>>
    /\ UNCHANGED <<calls, log, handled, published, sockErrors>>

\* poll or recv_multipart raises zmq.ZMQError (lines 94, 96).
SocketError ==
    /\ idleStop' = FALSE
    /\ UNCHANGED <<url, earlyStop, restarted>>
    /\ pc \in {"poll", "recv"}
    /\ sockErrors < MaxSockErrors
    /\ sockErrors' = sockErrors + 1
    /\ err' = "ZMQError"
    /\ pc' = "handler"
    /\ UNCHANGED <<running, inbox, parts, callbacks, result, exitCause>>
    /\ UNCHANGED <<calls, log, handled, published>>

\* A receive that takes the newest queued message instead of the oldest.
RecvNewest ==
    /\ idleStop' = FALSE
    /\ UNCHANGED <<url, earlyStop, restarted>>
    /\ pc = "recv"
    /\ parts' = inbox[Len(inbox)]
    /\ inbox' = SubSeq(inbox, 1, Len(inbox) - 1)
    /\ pc' = "process"
    /\ UNCHANGED <<running, err, callbacks, result, exitCause>>
    /\ UNCHANGED <<calls, log, handled, published, sockErrors>>

\* parts = self.socket.recv_multipart() (line 96)
Recv ==
    /\ idleStop' = FALSE
    /\ UNCHANGED <<url, earlyStop, restarted>>
    /\ pc = "recv"
    /\ parts' = Head(inbox)
    /\ inbox' = Tail(inbox)
    /\ pc' = "process"
    /\ UNCHANGED <<running, err, callbacks, result, exitCause>>
    /\ UNCHANGED <<calls, log, handled, published, sockErrors>>

\* A length test that lets longer messages through.
AtLeastTwoParts(frames) == Len(frames) >= 2

\* if len(parts) == 2: (line 97)
ExpectedParts(frames) == Len(frames) = 2

\* What lines 97-99 make of the received parts: the message is dropped, an
\* exception is raised, or a callback is chosen.
Fate(frames) ==
    IF ~ExpectedParts(frames) THEN [fate |-> "dropped", info |-> NoValue, err |-> "none"]
    ELSE LET decoded == DecodePayload(frames[2])
         IN  IF ~decoded.ok
             THEN [fate |-> "error", info |-> NoValue, err |-> decoded.err]
             ELSE LET eventType == GetItem(decoded.val, "event_type")
                  IN  IF ~eventType.ok
                      THEN [fate |-> "error", info |-> NoValue, err |-> eventType.err]
                      ELSE [fate |-> RouteTo(eventType.val),
                            info |-> decoded.val, err |-> "none"]

\* Lines 97-99: the length test, the decoding and the choice of the callback.
Process ==
    /\ idleStop' = FALSE
    /\ UNCHANGED <<url, earlyStop, restarted>>
    /\ pc = "process"
    /\ LET f == Fate(parts.frames)
       IN  /\ handled' = Append(handled, [id |-> parts.id, fate |-> f.fate, err |-> f.err])
           /\ IF f.fate = "dropped"
              THEN pc' = "test" /\ UNCHANGED <<err>>
              ELSE IF f.fate = "error"
              THEN pc' = "handler" /\ err' = f.err
              ELSE pc' = "call" /\ UNCHANGED err
    /\ UNCHANGED <<running, inbox, parts, callbacks, result, exitCause>>
    /\ UNCHANGED <<calls, log, published, sockErrors>>

\* self.spike_callback(info) / self.ttl_callback(info) (lines 100, 102).
\* The stubs are declared in the class as def spike_callback(info): the bound
\* call passes (self, info) to a function of one parameter, which raises
\* TypeError before the body runs.  A callable set on the instance receives
\* info alone; it returns or raises an Exception.
Call ==
    /\ idleStop' = FALSE
    /\ UNCHANGED <<url, earlyStop, restarted>>
    /\ pc = "call"
    /\ IF callbacks = "stub"
       THEN /\ err' = "TypeError"
            /\ pc' = "handler"
            /\ UNCHANGED calls
       ELSE /\ calls' = Append(calls, [cb |-> Fate(parts.frames).fate,
                                       arg |-> Fate(parts.frames).info,
                                       id |-> parts.id])
            /\ \E raises \in BOOLEAN :
                  IF raises
                  THEN err' = "CallbackError" /\ pc' = "handler"
                  ELSE pc' = "test" /\ UNCHANGED err
    /\ UNCHANGED <<running, inbox, parts, callbacks, result, exitCause>>
    /\ UNCHANGED <<log, handled, published, sockErrors>>

\* An except Exception clause that ends with break.
AfterErrorBreak == "exit"

\* Where control goes after the except Exception clause: the clause has no
\* break, so back to the while test (lines 106-107, 92).
AfterError == "test"

\* except Exception as e: print(f"Error: {e}") (lines 106-107)
HandleError ==
    /\ idleStop' = FALSE
    /\ UNCHANGED <<url, earlyStop, restarted>>
    /\ pc = "handler"
    /\ log' = Append(log, Line("Error: ", err))
    /\ err' = "none"
    /\ pc' = AfterError
    /\ UNCHANGED <<running, inbox, parts, callbacks, result, exitCause>>
    /\ UNCHANGED <<calls, handled, published, sockErrors>>

\* SIGINT: Python raises KeyboardInterrupt in the thread running start(),
\* wherever it is.  Inside the try block the except clause of line 103
\* takes it; anywhere else in start() nothing catches it and it leaves start().
Interrupt ==
    /\ idleStop' = FALSE
    /\ earlyStop' = FALSE
    /\ UNCHANGED <<url, restarted>>
    /\ pc \in InStart
    /\ IF pc \in TryBlock
       THEN pc' = "kbhandler" /\ UNCHANGED result
       ELSE pc' = "idle" /\ result' = "raised"
    /\ IF pc \in TryBlock
       THEN UNCHANGED <<parts, err>>
       ELSE parts' = NoParts /\ err' = "none"
    /\ UNCHANGED <<running, inbox, callbacks, exitCause>>
    /\ UNCHANGED <<calls, log, handled, published, sockErrors>>

\* except KeyboardInterrupt: print(...); break (lines 103-105)
HandleInterrupt ==
    /\ idleStop' = FALSE
    /\ UNCHANGED <<url, earlyStop, restarted>>
    /\ pc = "kbhandler"
    /\ log' = Append(log, Line("Stopped by KeyboardInterrupt", ""))
    /\ exitCause' = "interrupt"
    /\ pc' = "exit"
    /\ UNCHANGED <<running, inbox, parts, err, callbacks, result>>
    /\ UNCHANGED <<calls, handled, published, sockErrors>>

\* print("EventListener stopped.") and the return of start() (line 109)
Return ==
    /\ idleStop' = FALSE
    /\ earlyStop' = FALSE
    /\ UNCHANGED <<url, restarted>>
    /\ pc = "exit"
    /\ log' = Append(log, Line("EventListener stopped.", ""))
    /\ result' = "returned"
    /\ pc' = "idle"
    /\ parts' = NoParts
    /\ UNCHANGED <<running, inbox, err, callbacks, exitCause>>
    /\ UNCHANGED <<calls, handled, published, sockErrors>>

\* A stop() that flips the flag.
StopToggles == ~running

\* The value stop() writes to self.running (line 114).
StopValue == FALSE

\* stop() (lines 112-114), from any thread, a callback or a signal handler.
Stop ==
    /\ running' = StopValue
    /\ idleStop' = ~running
    /\ earlyStop' = (earlyStop \/ pc = "entered")
    /\ UNCHANGED <<url, restarted>>
    /\ UNCHANGED <<pc, inbox, parts, err, callbacks, result, exitCause>>
    /\ UNCHANGED <<calls, log, handled, published, sockErrors>>

Next ==
    \/ Publish
    \/ StartCall
    \/ SetRunning
    \/ LoopTest
    \/ PollTimeout
    \/ PollReady
    \/ SocketError
    \/ Recv
    \/ Process
    \/ Call
    \/ HandleError
    \/ Interrupt
    \/ HandleInterrupt
    \/ Return
    \/ Stop

Spec == Init /\ [][Next]_vars

\* The steps of the thread that called start().  poll returns within its
\* 100 ms timeout and the other statements do not block, so the thread
\* always takes its next step (a callback is taken to return).
LoopThread ==
    \/ SetRunning
    \/ LoopTest
    \/ PollTimeout
    \/ PollReady
    \/ Recv
    \/ Process
    \/ Call
    \/ HandleError
    \/ Return

\* The behaviours in which no SIGINT is delivered.
NextQuiet ==
    \/ Publish
    \/ StartCall
    \/ SocketError
    \/ LoopThread
    \/ Stop

FairSpec == Init /\ [][NextQuiet]_vars /\ WF_vars(LoopThread)

\* ------------------------------------------------------------ vocabulary
\* A step of the thread inside start() that is the statement at pc itself,
\* not a KeyboardInterrupt raised there.
Interrupted == pc' = "kbhandler" \/ (pc # "idle" /\ pc' = "idle" /\ result' = "raised")
OwnStep == pc' # pc /\ ~Interrupted

\* The second part of the message in hand, and what it is on the wire.
TwoParts == parts # NoParts /\ Len(parts.frames) = 2
Payload == parts.frames[2]
ValidJson(frame) == frame.utf8 /\ frame.json
HasEventType(frame) == "event_type" \in DOMAIN frame.value.fields
IsSpike(frame) ==
    ValidJson(frame) /\ HasEventType(frame) /\ frame.value.fields["event_type"] = "spike"
IsOther(frame) ==
    ValidJson(frame) /\ HasEventType(frame) /\ frame.value.fields["event_type"] # "spike"
LacksEventType(frame) == ValidJson(frame) /\ ~HasEventType(frame)

\* The statement that calls the callback is executed for the message in hand.
Dispatches == pc = "call" /\ OwnStep
\* Lines 97-99 are executed for the message in hand.
Processes == pc = "process" /\ OwnStep

LastLines(n) == SubSeq(log, Len(log) - n + 1, Len(log))

\* ------------------------------------------------------------------ C1
\* C1: when the loop dispatches a two-part message whose payload is valid
\* UTF-8 JSON with event_type "spike", exactly one callback invocation is
\* added, and it is the spike callback called with the decoded object.
C1_SpikeCallbackInvoked ==
    [][(Dispatches /\ TwoParts /\ IsSpike(Payload))
         => calls' = Append(calls, [cb |-> "spike", arg |-> Payload.value, id |-> parts.id])]_vars

\* ------------------------------------------------------------------ C2
\* C2: when the loop dispatches a two-part message whose payload is valid
\* UTF-8 JSON with an event_type other than "spike", exactly one callback
\* invocation is added, and it is the TTL callback called with the decoded
\* object.
C2_TtlCallbackInvoked ==
    [][(Dispatches /\ TwoParts /\ IsOther(Payload))
         => calls' = Append(calls, [cb |-> "ttl", arg |-> Payload.value, id |-> parts.id])]_vars

\* ------------------------------------------------------------------ C3
\* C3: a two-part message whose payload is a JSON object without event_type
\* is treated as "not spike": lines 97-99 take no error path and choose the
\* TTL callback.
C3_MissingFieldIsTtl ==
    [][(Processes /\ TwoParts /\ LacksEventType(Payload))
         => (pc' = "call" /\ err' = "none" /\ handled'[Len(handled')].fate = "ttl")]_vars

\* ------------------------------------------------------------------ C4
\* C4: a message whose part count is not 2 invokes no callback, prints
\* nothing and leaves the loop running (control is back at the while test
\* with the flag as it was); and a valid two-part message processed after
\* such a message still reaches the call of its callback.
DroppedBefore == \E i \in 1..Len(handled) : handled[i].fate = "dropped"

C4_WrongPartCountIgnored ==
    [][/\ (Processes /\ Len(parts.frames) # 2)
            => /\ pc' = "test"
               /\ calls' = calls
               /\ log' = log
               /\ running' = running
               /\ result' = result
               /\ exitCause' = exitCause
       /\ (Processes /\ DroppedBefore /\ TwoParts /\ (IsSpike(Payload) \/ IsOther(Payload)))
            => pc' = "call"
       /\ (Dispatches /\ DroppedBefore /\ callbacks = "user")
            => /\ Len(calls') = Len(calls) + 1
               /\ calls'[Len(calls')].id = parts.id
               /\ calls'[Len(calls')].cb = (IF IsSpike(Payload) THEN "spike" ELSE "ttl")
      ]_vars

\* A one- or three-part message was dropped and a later message was passed
\* to a callback, in the same run of the loop.
C4_Witness ==
    \E i, j \in 1..Len(handled) :
        /\ i < j
        /\ handled[i].fate = "dropped"
        /\ \E k \in 1..Len(calls) : calls[k].id = handled[j].id
        /\ pc = "poll"

\* ------------------------------------------------------------------ C5
\* C5: a two-part message whose payload is not valid UTF-8 or not valid JSON
\* invokes no callback and goes to the except Exception clause; the clause
\* prints the failure and goes back to the while test; neither step writes
\* the running flag, and the test with the flag true polls again.
C5_UndecodablePayloadLogged ==
    [][/\ (Processes /\ TwoParts /\ ~ValidJson(Payload))
            => /\ pc' = "handler"
               /\ err' = (IF Payload.utf8 THEN "JSONDecodeError" ELSE "UnicodeDecodeError")
               /\ calls' = calls
               /\ running' = running
       /\ (pc = "handler" /\ OwnStep)
            => /\ log' = Append(log, Line("Error: ", err))
               /\ pc' = "test"
               /\ calls' = calls
               /\ running' = running
       /\ (pc = "test" /\ OwnStep /\ running) => pc' = "poll"
      ]_vars

\* A decoding failure was printed and the loop is polling again.
C5_Witness ==
    /\ pc = "poll"
    /\ running
    /\ Len(log) > 1
    /\ log[Len(log)] \in {Line("Error: ", "JSONDecodeError"), Line("Error: ", "UnicodeDecodeError")}
    /\ calls = <<>>

\* ------------------------------------------------------------------ C6
\* C6: once stop() has cleared the flag while the loop is running, the while
\* test leaves the loop the next time it is reached; a wait is begun only
\* from a while test that saw the flag true and a message is received only
\* in the iteration of such a wait, so at most the iteration in progress
\* completes; and start() returns.  Checked under FairSpec.
InLoop == pc \in {"test", "poll", "recv", "process", "call", "handler"}
StopPending == InLoop /\ ~running
Returned == pc = "idle" /\ result = "returned"

C6_StopEndsTheLoop ==
    /\ [][(pc = "test" /\ ~running /\ pc' # pc) => pc' = "exit"]_vars
    /\ [][(pc' = "poll" /\ pc # "poll") => (pc = "test" /\ running)]_vars
    /\ [][(pc' = "recv" /\ pc # "recv") => pc = "poll"]_vars
    /\ [][(pc' = "process" /\ pc # "process") => pc = "recv"]_vars
    /\ [](StopPending => <>Returned)

\* start() has returned because the while test saw the flag cleared.
C6_Witness == Returned /\ exitCause = "flag" /\ ~running

\* ------------------------------------------------------------------ C7
\* C7: no step taken while the thread is in the wait or in the processing of
\* an iteration makes start() raise: a KeyboardInterrupt there goes to its
\* except clause, which prints "Stopped by KeyboardInterrupt" and leaves the
\* loop; start() then prints "EventListener stopped." and returns.
C7_InterruptCaught ==
    /\ [][/\ (pc \in {"poll", "recv", "process", "call"}) => result' # "raised"
          /\ (pc \in {"poll", "recv", "process", "call"} /\ pc' \notin {pc, "kbhandler"})
                => pc' \in {"test", "poll", "recv", "process", "call", "handler"}
          /\ (pc = "kbhandler" /\ OwnStep)
                => /\ log' = Append(log, Line("Stopped by KeyboardInterrupt", ""))
                   /\ pc' = "exit"
          /\ (pc = "exit" /\ OwnStep)
                => /\ log' = Append(log, Line("EventListener stopped.", ""))
                   /\ pc' = "idle"
                   /\ result' = "returned"
         ]_vars
    /\ []((Returned /\ exitCause = "interrupt")
            => LastLines(2) = <<Line("Stopped by KeyboardInterrupt", ""),
                                Line("EventListener stopped.", "")>>)

\* start() has returned after a KeyboardInterrupt.
C7_Witness == Returned /\ exitCause = "interrupt"

\* ------------------------------------------------------------------ C8
\* C8: start() never raises: no step taken while the loop is running (the
\* while test, the wait, the processing of a message, the except Exception
\* clause) ends start() by an exception leaving it.
C8_StartNeverRaises ==
    [][(pc \in {"test", "poll", "recv", "process", "call", "handler"})
          => result' # "raised"]_vars

\* ------------------------------------------------------------------ C9
\* C9: start accepts the caller's two callbacks, and with the default stubs
\* a dispatch completes without raising.
C9_CallbacksSuppliedToStart ==
    /\ result # "rejected"
    /\ ~(callbacks = "stub" /\ pc = "handler" /\ err = "TypeError")

\* ------------------------------------------------------------------ C10
\* C10: a stop() call that finds the running flag already False does not
\* raise and changes nothing of the listener: the flag stays False.
C10_StopIdempotent ==
    [][idleStop' => (~running' /\ UNCHANGED progVars)]_vars

\* stop() was called after start() had returned with the flag cleared.
C10_Witness == idleStop /\ Returned /\ ~running

\* ------------------------------------------------------------------ C11
\* C11: whenever no start() call is in progress the flag is False: after
\* construction until start() is called, and after start() has returned,
\* whether the loop was left by the flag or by an interrupt.
NeverStarted == pc = "idle" /\ result = "none"

C11_NotRunningOutsideStart == (NeverStarted \/ Returned) => ~running

\* ------------------------------------------------------------------ C12
\* A handled two-part message whose payload decoded to a JSON object: it was
\* routed to a callback, or the decoded object had no "event_type" key.
DecodedObject(h) == h.fate \in {"spike", "ttl"} \/ h.err = "KeyError"

DecodedIds == {handled[i].id : i \in {j \in DOMAIN handled : DecodedObject(handled[j])}}

InvocationsOf(id) == {i \in DOMAIN calls : calls[i].id = id}

\* Between two iterations of the loop of a first, uninterrupted start() call.
BetweenIterations == ~restarted /\ pc \in {"test", "poll"}

\* C12: between iterations the number of callback invocations (spike plus
\* TTL) equals the number of received two-part messages that decoded to a
\* JSON object, and each of them was passed once to one callback.
C12_OneInvocationPerDecodedEvent ==
    BetweenIterations =>
        /\ Len(calls) = Cardinality(DecodedIds)
        /\ \A id \in DecodedIds : Cardinality(InvocationsOf(id)) = 1

\* ------------------------------------------------------------------ C13
StartWritesFlag == pc = "entered" /\ pc' = "test" /\ running'
StopWritesFlag == pc' = pc /\ ~running' /\ UNCHANGED <<inbox, parts, calls, log>>
LoopBody == {"poll", "recv", "process", "call", "handler"}

\* C13: only start() and stop() write the running flag.  A poll that times
\* out invokes no callback and goes back to the while test; a timeout, a
\* receipt, a dispatch, a dropped message and a caught error (every step of
\* the loop body) leave the running flag and the endpoint URL as they were.
C13_OnlyStartAndStopWriteFlag ==
    [][ /\ running' # running => (StartWritesFlag \/ StopWritesFlag)
        /\ (pc = "poll" /\ inbox = <<>> /\ OwnStep)
               => (pc' \in {"test", "handler"} /\ calls' = calls)
        /\ (pc \in LoopBody /\ pc' # pc)
               => (running' = running /\ url' = url)
        /\ url' = url /\ url = DefaultUrl ]_vars

\* A dropped message and a caught error lie behind, a callback has been
\* invoked or has failed, and the loop is about to poll again with the flag
\* still True.
C13_Witness ==
    /\ pc = "poll" /\ running /\ url = DefaultUrl
    /\ \E i \in DOMAIN handled : handled[i].fate = "dropped"
    /\ \E i \in DOMAIN handled : handled[i].fate # "dropped"
    /\ Len(log) > 1

\* ------------------------------------------------------------------ C14
\* The ids of a sequence of records grow: the socket numbers the messages
\* in the order it delivers them.
InDeliveryOrder(seq) ==
    \A i, j \in DOMAIN seq : i < j => seq[i].id < seq[j].id

ReceivesOne ==
    /\ pc = "recv" /\ pc' = "process"
    /\ inbox # <<>>
    /\ parts' = Head(inbox)
    /\ inbox' = Tail(inbox)

Enqueues ==
    /\ Len(inbox') = Len(inbox) + 1
    /\ SubSeq(inbox', 1, Len(inbox)) = inbox

\* C14: messages are handled one at a time and in arrival order.  A message
\* leaves the socket only by the receive of an iteration, which takes the
\* oldest one; the next receive is reached only through the while test and
\* the poll, after the handling of the previous message has ended in a
\* callback return, a drop or a caught error; the callback invocations are
\* a subsequence of the received messages in delivery order.
C14_OneAtATimeInOrder ==
    [][ /\ inbox' # inbox => (ReceivesOne \/ Enqueues)
        /\ (parts' # parts /\ parts' # NoParts) => ReceivesOne
        /\ (pc' = "recv" /\ pc # "recv") => pc = "poll"
        /\ (pc' = "poll" /\ pc # "poll") => pc = "test"
        /\ (pc \in {"process", "call", "handler"} /\ OwnStep)
               => pc' \in {"call", "handler", "test"}
        /\ InDeliveryOrder(handled')
        /\ InDeliveryOrder(calls')
        /\ \A i \in DOMAIN calls' :
               \E j \in DOMAIN handled' : handled'[j].id = calls'[i].id ]_vars

\* Two messages have been received and passed to a callback, the first
\* before the second.
C14_Witness ==
    /\ Len(calls) = 2 /\ calls[1].id = 1 /\ calls[2].id = 2
    /\ Len(handled) = 2
    /\ pc = "test"

\* ------------------------------------------------------------------ C15
\* C15: start() writes True to the flag on entry whatever the flag was, so
\* a stop() that completed between the entry of start() and that write is
\* overwritten: the while test that follows enters the loop, and the loop
\* is left only by a while test that sees the flag False (a later stop())
\* or by the interrupt handler.
C15_EarlyStopOverwritten ==
    [][ /\ (pc = "entered" /\ OwnStep) => (running' /\ pc' = "test")
        /\ (earlyStop /\ pc = "test" /\ running /\ OwnStep) => pc' = "poll"
        /\ (pc' = "exit" /\ pc # "exit")
               => (pc = "test" /\ ~running) \/ pc = "kbhandler" ]_vars

\* A stop() ran after start() was entered and before it wrote the flag; the
\* flag is True again and the while test is next.
C15_Witness == earlyStop /\ pc = "test" /\ running /\ ~restarted

\* ------------------------------------------------------------------ C16
\* What one step of the loop does with the message in hand, in terms of the
\* message and the callbacks alone.
DispatchRule ==
    /\ Processes =>
           LET f == Fate(parts.frames)
           IN  pc' = (IF f.fate = "dropped" THEN "test"
                      ELSE IF f.fate = "error" THEN "handler" ELSE "call")
    /\ (Dispatches /\ callbacks = "user") =>
           calls' = Append(calls, [cb |-> Fate(parts.frames).fate,
                                   arg |-> Fate(parts.frames).info,
                                   id |-> parts.id])
    /\ (Dispatches /\ callbacks = "stub") => (calls' = calls /\ pc' = "handler")
    /\ (pc = "handler" /\ OwnStep) => pc' = "test"

\* C16: a start() call made after an earlier one has ended (by stop(), by
\* the interrupt handler or by a propagated interrupt) sets the flag True,
\* enters the polling loop on the same socket and queue, and handles each
\* message it receives by the same rule as a first call.
C16_Restartable ==
    [][ /\ (restarted /\ pc = "entered" /\ OwnStep) => (running' /\ pc' = "test")
        /\ (restarted /\ pc = "test" /\ running /\ OwnStep) => pc' = "poll"
        /\ (restarted /\ pc = "poll" /\ inbox # <<>> /\ OwnStep)
               => (pc' \in {"recv", "handler"} /\ inbox' = inbox)
        /\ (restarted /\ pc = "recv" /\ OwnStep /\ pc' # "handler")
               => (parts' = Head(inbox) /\ url' = url)
        /\ restarted => DispatchRule
        /\ ~restarted => DispatchRule ]_vars

\* In a later start() call a message has been received and passed to a
\* callback, and the loop goes on.
C16_Witness ==
    /\ restarted /\ running /\ pc = "test"
    /\ parts # NoParts /\ calls # <<>>
    /\ calls[Len(calls)].id = parts.id


=============================================================================
